---------------------------- MODULE Spec2Model ----------------------------
(***************************************************************************)
(* A model of BayWheelsClient (src/src/bay_wheels/client.py): the client's *)
(* token and session state, its operations, and the parsing of the         *)
(* inventory and reservation responses.                                    *)
(*                                                                         *)
(* Text is a sequence of symbols.  A symbol stands for one character; the  *)
(* words of the wire format ("type", "ride_id", ...) are single symbols    *)
(* of the letter class.  Response content is a sequence of bytes: the      *)
(* same symbols plus BadByte, a byte that is no valid UTF-8.               *)
(***************************************************************************)
EXTENDS Integers, Sequences, FiniteSets, TLC

\* --------------------------------------------------------------- bounds
MaxFeatures == 2
MaxCloses == 2

\* ------------------------------------------------------------- symbols
Quote == "\""
Backslash == "\\"
Space == " "
BadByte == "<FF>"
CtrlByte == "<12>"
Digits == {"0", "1", "2", "3", "4", "5", "6", "7", "8", "9"}
Punct == {"{", "}", "[", "]", ":", ",", "=", Quote, Backslash, Space}
\* Python's str "None", as one symbol of the letter class.
PyNone == "None"

\* re's \w on str: letters, digits and the underscore.  Every symbol that is
\* neither punctuation nor a control byte nor BadByte is of the letter class.
IsWordChar(c) == c \notin Punct /\ c # CtrlByte /\ c # BadByte

\* ---------------------------------------------------------- JSON values
Null == [t |-> "null"]
Num(d) == [t |-> "num", n |-> d]
Str(s) == [t |-> "str", s |-> s]
Arr(a) == [t |-> "arr", a |-> a]
Obj(o) == [t |-> "obj", o |-> o]
Member(k, v) == [k |-> k, v |-> v]

\* F applied to a value that is computed once: "x = e; F(x)".
With(x, F(_)) == F(x)

\* A Python exception raised instead of a value.
Raise(e) == [ok |-> FALSE, err |-> e]
Return(v) == [ok |-> TRUE, val |-> v]

\* ------------------------------------------------- json.loads on a str
ParseFail == [ok |-> FALSE, v |-> Null, i |-> 0]
ParseOk(v, i) == [ok |-> TRUE, v |-> v, i |-> i]

RECURSIVE SkipWs(_, _)
SkipWs(t, i) ==
    IF i <= Len(t) /\ t[i] = Space THEN SkipWs(t, i + 1) ELSE i

\* The number of backslashes that immediately precede position j, counted
\* back to position lo.
BackslashesBefore(t, lo, j) ==
    LET others == {k \in lo..(j - 1) : t[k] # Backslash}
    IN  IF others = {} THEN j - lo
        ELSE j - 1 - (CHOOSE k \in others : \A m \in others : m <= k)

\* Position j of a string body that starts at lo is escaped when an odd
\* number of backslashes precedes it.
IsEscaped(t, lo, j) == BackslashesBefore(t, lo, j) % 2 = 1

\* The closing quote of the string body that starts at position lo: the
\* first unescaped quote; 0 when there is none.
ClosingQuote(t, lo) ==
    With({j \in lo..Len(t) : t[j] = Quote /\ ~IsEscaped(t, lo, j)},
         LAMBDA closers :
             IF closers = {} THEN 0
             ELSE CHOOSE j \in closers : \A m \in closers : j <= m)

\* The characters at the positions kept, in their order.
CharsAt(t, kept) ==
    [n \in 1..Cardinality(kept) |->
        t[CHOOSE p \in kept : Cardinality({q \in kept : q <= p}) = n]]

\* The string body between lo and its closing quote at hi.  A backslash
\* escapes a quote or a backslash and nothing else; a control character may
\* not appear.
StringBody(t, lo, hi) ==
    With({j \in lo..(hi - 1) : t[j] = Backslash /\ ~IsEscaped(t, lo, j)},
         LAMBDA escapes :
             IF \/ \E j \in lo..(hi - 1) : t[j] = CtrlByte
                \/ \E j \in escapes : t[j + 1] \notin {Quote, Backslash}
             THEN ParseFail
             ELSE ParseOk(CharsAt(t, (lo..(hi - 1)) \ escapes), hi + 1))

\* The body of a string literal that starts at position lo (after the
\* opening quote), up to its closing quote.
ScanString(t, lo) ==
    With(ClosingQuote(t, lo),
         LAMBDA hi : IF hi = 0 THEN ParseFail ELSE StringBody(t, lo, hi))

\* The end (exclusive) of the run of digits that starts at position i.
DigitRunEnd(t, i) ==
    LET stops == {j \in i..Len(t) : t[j] \notin Digits}
    IN  IF stops = {} THEN Len(t) + 1
        ELSE CHOOSE j \in stops : \A m \in stops : j <= m

\* An integer literal at position i: "0", or a run of digits not led by "0".
ScanNumber(t, i) ==
    With(IF t[i] = "0" THEN i + 1 ELSE DigitRunEnd(t, i),
         LAMBDA e : ParseOk(Num(SubSeq(t, i, e - 1)), e))

RECURSIVE ParseValue(_, _)
RECURSIVE ParseMembers(_, _, _)
RECURSIVE ParseElements(_, _, _)

\* A parsed string body as a JSON string.
AsStr(r) == IF r.ok THEN ParseOk(Str(r.v), r.i) ELSE ParseFail

ParseValue(t, i0) ==
    With(SkipWs(t, i0), LAMBDA i :
    IF i > Len(t) THEN ParseFail
    ELSE IF t[i] = "{"
         THEN With(SkipWs(t, i + 1), LAMBDA j :
              IF j <= Len(t) /\ t[j] = "}" THEN ParseOk(Obj(<<>>), j + 1)
              ELSE ParseMembers(t, j, <<>>))
    ELSE IF t[i] = "["
         THEN With(SkipWs(t, i + 1), LAMBDA j :
              IF j <= Len(t) /\ t[j] = "]" THEN ParseOk(Arr(<<>>), j + 1)
              ELSE ParseElements(t, j, <<>>))
    ELSE IF t[i] = Quote THEN AsStr(ScanString(t, i + 1))
    ELSE IF t[i] \in Digits THEN ScanNumber(t, i)
    ELSE IF t[i] = "null" THEN ParseOk(Null, i + 1)
    ELSE ParseFail)

\* What follows a member or an element at position e: a comma and the next
\* one, or the closing bracket.
AfterItem(t, e, close) ==
    IF e > Len(t) THEN "fail"
    ELSE IF t[e] = "," THEN "more"
    ELSE IF t[e] = close THEN "end"
    ELSE "fail"

\* "key": value pairs separated by commas, up to the closing brace.
ParseMembers(t, i0, acc) ==
    With(SkipWs(t, i0), LAMBDA i :
    IF i > Len(t) \/ t[i] # Quote THEN ParseFail
    ELSE With(ScanString(t, i + 1), LAMBDA k :
         IF ~k.ok THEN ParseFail
         ELSE With(SkipWs(t, k.i), LAMBDA c :
              IF c > Len(t) \/ t[c] # ":" THEN ParseFail
              ELSE With(ParseValue(t, c + 1), LAMBDA v :
                   IF ~v.ok THEN ParseFail
                   ELSE With(SkipWs(t, v.i), LAMBDA e :
                        With(Append(acc, Member(k.v, v.v)), LAMBDA acc2 :
                        With(AfterItem(t, e, "}"), LAMBDA next :
                        IF next = "more" THEN ParseMembers(t, e + 1, acc2)
                        ELSE IF next = "end" THEN ParseOk(Obj(acc2), e + 1)
                        ELSE ParseFail)))))))

ParseElements(t, i0, acc) ==
    With(ParseValue(t, i0), LAMBDA v :
    IF ~v.ok THEN ParseFail
    ELSE With(SkipWs(t, v.i), LAMBDA e :
         With(Append(acc, v.v), LAMBDA acc2 :
         With(AfterItem(t, e, "]"), LAMBDA next :
         IF next = "more" THEN ParseElements(t, e + 1, acc2)
         ELSE IF next = "end" THEN ParseOk(Arr(acc2), e + 1)
         ELSE ParseFail))))

\* json.loads(s) for a str s: the value, or JSONDecodeError (also on data
\* that follows the value).
Loads(t) ==
    With(ParseValue(t, 1), LAMBDA r :
         IF r.ok /\ SkipWs(t, r.i) = Len(t) + 1
         THEN Return(r.v)
         ELSE Raise("JSONDecodeError"))

\* bytes.decode("utf-8"): fails on a byte sequence that is no UTF-8.
HasBadByte(content) == \E i \in 1..Len(content) : content[i] = BadByte

\* response.json(): json.loads(response.content), which decodes the bytes
\* strictly before it parses them.
ResponseJson(content) ==
    IF HasBadByte(content) THEN Raise("UnicodeDecodeError") ELSE Loads(content)

\* content.decode("utf-8", errors="ignore"): the undecodable bytes dropped.
DecodeIgnore(content) == SelectSeq(content, LAMBDA c : c # BadByte)

\* --------------------------------------------------- JSON text (server)
\* A quote or a backslash inside a string literal is written after a backslash.
RECURSIVE EscapeText(_)
EscapeText(s) ==
    IF s = <<>> THEN <<>>
    ELSE IF Len(s) = 1
         THEN IF s[1] \in {Quote, Backslash} THEN <<Backslash, s[1]>> ELSE s
    ELSE LET h == Len(s) \div 2
         IN  EscapeText(SubSeq(s, 1, h)) \o EscapeText(SubSeq(s, h + 1, Len(s)))

StringLiteral(s) == <<Quote>> \o EscapeText(s) \o <<Quote>>

RECURSIVE Dumps(_)
RECURSIVE DumpsMembers(_)
RECURSIVE DumpsElements(_)
Dumps(v) ==
    IF v.t = "null" THEN <<"null">>
    ELSE IF v.t = "num" THEN v.n
    ELSE IF v.t = "str" THEN StringLiteral(v.s)
    ELSE IF v.t = "arr" THEN <<"[">> \o DumpsElements(v.a) \o <<"]">>
    ELSE <<"{">> \o DumpsMembers(v.o) \o <<"}">>
DumpsMembers(o) ==
    IF o = <<>> THEN <<>>
    ELSE StringLiteral(o[1].k) \o <<":">> \o Dumps(o[1].v)
         \o (IF Len(o) > 1 THEN <<",">> \o DumpsMembers(Tail(o)) ELSE <<>>)
DumpsElements(a) ==
    IF a = <<>> THEN <<>>
    ELSE Dumps(a[1])
         \o (IF Len(a) > 1 THEN <<",">> \o DumpsElements(Tail(a)) ELSE <<>>)

\* ------------------------------------------------ Python on JSON values
\* The text of the words the client looks for.
Word(w) == <<w>>

HasKey(o, k) == \E i \in 1..Len(o) : o[i].k = k

\* A dict keeps the last value of a repeated key.
Lookup(o, k) ==
    o[CHOOSE i \in 1..Len(o) :
          o[i].k = k /\ \A j \in (i + 1)..Len(o) : o[j].k # k].v

\* d.get(k, default) on a dict d.
Get(d, k, default) == IF HasKey(d.o, k) THEN Lookup(d.o, k) ELSE default

\* Whether text w occurs in text s (str.__contains__).
IsSubText(w, s) ==
    \E i \in 0..(Len(s) - Len(w)) : SubSeq(s, i + 1, i + Len(w)) = w

\* k in x: a key of a dict, an element of a list, a substring of a str;
\* TypeError on a value that is no container.
PyIn(k, x) ==
    IF x.t = "obj" THEN Return(HasKey(x.o, k))
    ELSE IF x.t = "arr" THEN Return(\E i \in 1..Len(x.a) : x.a[i] = Str(k))
    ELSE IF x.t = "str" THEN Return(IsSubText(k, x.s))
    ELSE Raise("TypeError")

\* x[k] for a str k: the value of a dict's key; TypeError on a list, a str
\* and on a value that cannot be subscripted.
PySubscript(x, k) ==
    IF x.t = "obj"
    THEN IF HasKey(x.o, k) THEN Return(Lookup(x.o, k)) ELSE Raise("KeyError")
    ELSE Raise("TypeError")

\* json.loads(x): TypeError unless x is a str.
JsonLoads(x) == IF x.t = "str" THEN Loads(x.s) ELSE Raise("TypeError")

\* str(x): the text of a str or an int, "None" for None.  The repr of a list
\* or a dict is its JSON text when it is empty, as it is wherever it is used.
PyStr(x) ==
    IF x.t = "str" THEN x.s
    ELSE IF x.t = "num" THEN x.n
    ELSE IF x.t = "null" THEN <<PyNone>>
    ELSE Dumps(x)

\* bool(x) of None or of a str.
Truthy(x) == ~(x.t = "null" \/ (x.t = "str" /\ x.s = <<>>))

\* The exceptions "except (json.JSONDecodeError, ValueError)" catches:
\* JSONDecodeError and UnicodeDecodeError are both ValueErrors.
IsValueError(e) == e \in {"JSONDecodeError", "UnicodeDecodeError", "ValueError"}

\* ------------------------------------------- list_stations: the parsing
MapInventoryJson == Word("map_inventory_json")
FeatureCollection == Word("FeatureCollection")

\* A decoding that never looks into the map_inventory_json field.
InventoryData_Direct(content) ==
    With(ResponseJson(content), LAMBDA outer_data :
         IF ~outer_data.ok THEN Raise("BayWheelsError") ELSE outer_data)

\* Lines 164-174: the GeoJSON value of the response, nested in the
\* map_inventory_json field as an escaped JSON string or given directly.  A
\* ValueError of either decoding step becomes BayWheelsError; any other
\* exception leaves the method as it is.
InventoryData(content) ==
    With(ResponseJson(content), LAMBDA outer_data :
    IF ~outer_data.ok
    THEN IF IsValueError(outer_data.err) THEN Raise("BayWheelsError")
         ELSE outer_data
    ELSE With(PyIn(MapInventoryJson, outer_data.val), LAMBDA nested :
         IF ~nested.ok THEN nested
         ELSE IF nested.val
              THEN With(PySubscript(outer_data.val, MapInventoryJson),
                        LAMBDA field :
                   IF ~field.ok THEN field
                   ELSE With(JsonLoads(field.val), LAMBDA data :
                        IF ~data.ok /\ IsValueError(data.err)
                        THEN Raise("BayWheelsError")
                        ELSE data))
              ELSE outer_data))

\* A filter that drops the bikes instead of keeping the stations.
IsStationProps_NotBike(props) ==
    Get(props, Word("map_item_type"), Null) # Num(<<"2">>)

\* Line 183: props.get("map_item_type") == 1.
IsStationProps(props) == Get(props, Word("map_item_type"), Null) = Num(<<"1">>)

\* Lines 181-183 for one feature: whether it is a station; AttributeError
\* when the feature or its properties is no dict.
IsStationFeature(feature) ==
    IF feature.t # "obj" THEN Raise("AttributeError")
    ELSE With(Get(feature, Word("properties"), Obj(<<>>)), LAMBDA props :
         IF props.t # "obj" THEN Raise("AttributeError")
         ELSE Return(IsStationProps(props)))

\* Station.from_geojson_feature(feature): the Station of a feature, known by
\* the feature's id.
StationFromFeature(feature) == [id |-> Get(feature, Word("id"), Null)]

\* What "for feature in x" iterates over: the elements of a list, the
\* characters of a str, the keys of a dict; TypeError otherwise.
PyIter(x) ==
    IF x.t = "arr" THEN Return(x.a)
    ELSE IF x.t = "str" THEN Return([i \in 1..Len(x.s) |-> Str(<<x.s[i]>>)])
    ELSE IF x.t = "obj" THEN Return([i \in 1..Len(x.o) |-> Str(x.o[i].k)])
    ELSE Raise("TypeError")

\* Lines 179-186: the stations of the features, in their order; the first
\* feature that raises ends the loop with its exception.
StationsOf(features) ==
    With([i \in 1..Len(features) |-> IsStationFeature(features[i])],
         LAMBDA steps :
    With({i \in 1..Len(features) : ~steps[i].ok}, LAMBDA failing :
         IF failing # {}
         THEN steps[CHOOSE i \in failing : \A j \in failing : i <= j]
         ELSE With({i \in 1..Len(features) : steps[i].val}, LAMBDA kept :
                   Return([n \in 1..Cardinality(kept) |->
                              StationFromFeature(CharsAt(features, kept)[n])]))))

\* Lines 163-186: the outcome of list_stations on a 200 response.
ParseStations(content) ==
    With(InventoryData(content), LAMBDA data :
    IF ~data.ok THEN data
    ELSE IF data.val.t # "obj" THEN Raise("AttributeError")
    ELSE IF Get(data.val, Word("type"), Null) # Str(FeatureCollection)
         THEN Raise("BayWheelsError")
    ELSE With(PyIter(Get(data.val, Word("features"), Arr(<<>>))),
              LAMBDA features :
              IF ~features.ok THEN features ELSE StationsOf(features.val)))

\* Lines 201-205: the first station with the id, or None.
FindStation(stations, station_id) ==
    With({i \in 1..Len(stations) : stations[i].id = Str(station_id)},
         LAMBDA hits :
             IF hits = {} THEN <<>>
             ELSE <<stations[CHOOSE i \in hits : \A j \in hits : i <= j]>>)

\* -------------------------------------- create_reservation: the parsing
MinRideIdDigits == 15
MaxRideIdDigits == 20

IsWordAt(t, i) == i >= 1 /\ i <= Len(t) /\ IsWordChar(t[i])

\* \b before position i: exactly one of the characters around it is a word
\* character.
IsWordBoundary(t, i) == IsWordAt(t, i - 1) # IsWordAt(t, i)

\* \b(\d{15,20})\b matches n digits at position i.
RideIdMatchAt(t, i, n) ==
    /\ IsWordBoundary(t, i)
    /\ i + n - 1 <= Len(t)
    /\ \A k \in i..(i + n - 1) : t[k] \in Digits
    /\ IsWordBoundary(t, i + n)

\* The pattern without its word boundaries, (\d{15,20}).
SearchRideId_NoBoundary(text) ==
    With({m \in (1..Len(text)) \X (MinRideIdDigits..MaxRideIdDigits) :
             /\ m[1] + m[2] - 1 <= Len(text)
             /\ \A k \in m[1]..(m[1] + m[2] - 1) : text[k] \in Digits},
         LAMBDA matches :
             IF matches = {} THEN <<>>
             ELSE With(CHOOSE a \in matches : \A b \in matches :
                           a[1] < b[1] \/ (a[1] = b[1] /\ a[2] >= b[2]),
                       LAMBDA m : <<SubSeq(text, m[1], m[1] + m[2] - 1)>>))

\* re.search(r"\b(\d{15,20})\b", text): group 1 of the leftmost match, the
\* longest at that position; <<>> for no match.
SearchRideId(text) ==
    With({m \in (1..Len(text)) \X (MinRideIdDigits..MaxRideIdDigits) :
             RideIdMatchAt(text, m[1], m[2])},
         LAMBDA matches :
             IF matches = {} THEN <<>>
             ELSE With(CHOOSE a \in matches : \A b \in matches :
                           a[1] < b[1] \/ (a[1] = b[1] /\ a[2] >= b[2]),
                       LAMBDA m : <<SubSeq(text, m[1], m[1] + m[2] - 1)>>))

\* Lines 258-259: ride_id and status of the decoded JSON.
RideIdAndStatusOf(data) ==
    IF data.t # "obj" THEN Raise("AttributeError")
    ELSE Return([ride_id |-> Str(PyStr(Get(data, Word("ride_id"), Str(<<>>)))),
                 status |-> Get(data, Word("status"), Str(Word("reserved")))])

\* Lines 263-269: the first long number of the text, read leniently.
RideIdOfText(content) ==
    With(SearchRideId(DecodeIgnore(content)), LAMBDA match :
         Return([ride_id |-> IF match = <<>> THEN Null ELSE Str(match[1]),
                 status |-> Str(Word("reserved"))]))

\* Lines 252-269: ride_id and status, from the JSON of the response or, when
\* response.json() raises JSONDecodeError, from the first long number of its
\* text.  Any other exception leaves the inner try.
RideIdAndStatus(content) ==
    With(ResponseJson(content), LAMBDA data :
         IF data.ok THEN RideIdAndStatusOf(data.val)
         ELSE IF data.err = "JSONDecodeError" THEN RideIdOfText(content)
         ELSE data)

\* Lines 246-281: the outcome of create_reservation on a 200 response.  The
\* outer "except Exception" turns every exception into ReservationError.
ParseReservation(content, station_id) ==
    With(RideIdAndStatus(content), LAMBDA parsed :
         IF ~parsed.ok THEN Raise("ReservationError")
         ELSE IF ~Truthy(parsed.val.ride_id) THEN Raise("ReservationError")
         ELSE Return([ride_id |-> parsed.val.ride_id.s,
                      status |-> parsed.val.status,
                      station_id |-> station_id]))

\* ------------------------------------------------------- the client
VARIABLES
    token,           \* AuthManager's access token: <<>> for None, or <<t>>
    stored,          \* the token file: <<>> when there is none, or <<t>>
    scope,           \* the async-with block: "outside", "inside", "exited"
    close_calls,     \* how often close() has run, called or on leaving the block
    session_closes,  \* how often self._session.close() has been called
    pc,              \* "idle", or "awaiting" the response of a post
    call,            \* the operation called last, with its arguments
    request,         \* the request that call has posted: <<>> or <<r>>
    response,        \* the response the transport returned: <<>> or <<r>>
    outcome          \* what the call returned or raised: <<>> or <<o>>

vars == <<token, stored, scope, close_calls, session_closes, pc, call,
          request, response, outcome>>

BASE_URL == "https://api.lyft.com"
InventoryPath == "/v1/lbsbff/map/inventory"
ReservePath == "/v1/last-mile/stations/reserve/v2"
CancelPath == "/v1/last-mile/rides/cancel"
Url(path) == <<BASE_URL, path>>

\* self._owns_session: set in __init__ and never changed.
owns_session == TRUE

\* bool(s) of a str: whether it is not empty.
TruthyStr(s) == s # ""

\* A guard that lets every call through.
is_authenticated_unguarded == TRUE

\* Lines 65-68.
is_authenticated == token # <<>>

\* Lines 82-99: the common headers, and the authorization header when the
\* access token is truthy.
get_headers(authenticated) ==
    [user_agent |-> "USER_AGENT",
     content_type |-> "application/json",
     authorization |->
         IF authenticated /\ token # <<>> /\ TruthyStr(token[1])
         THEN <<"Bearer ", token[1]>>
         ELSE <<>>]

\* ------------------------------------------- what the transport returns
Response(status, content) == [status |-> status, content |-> content]

\* A feature of the inventory, by the discriminator it carries: a station
\* ("1"), a bike ("2"), properties without map_item_type, or no properties.
FeatureKinds == {"1", "2", "untyped", "bare"}
Feature(i, kind) ==
    Obj(<<Member(Word("id"), Str(Word(ToString(i))))>>
        \o (IF kind = "bare" THEN <<>>
            ELSE <<Member(Word("properties"),
                          Obj(IF kind = "untyped" THEN <<>>
                              ELSE <<Member(Word("map_item_type"),
                                            Num(Word(kind)))>>))>>))

\* Two stations and a bike: the inventory of the documented example.
ExampleKinds == <<"1", "1", "2">>

KindLists ==
    UNION {[1..n -> FeatureKinds] : n \in 0..MaxFeatures} \cup {ExampleKinds}

Collection(kinds) ==
    Obj(<<Member(Word("type"), Str(FeatureCollection)),
          Member(Word("features"),
                 Arr([i \in 1..Len(kinds) |-> Feature(i, kinds[i])]))>>)

\* The collection as the escaped JSON string of the map_inventory_json field.
Nested(value) == Obj(<<Member(MapInventoryJson, Str(Dumps(value)))>>)

\* Bodies that are no well-formed FeatureCollection.
NotACollection ==
    {<<"{">>,
     <<BadByte>>,
     <<"[", "]">>,
     <<"5">>,
     <<"null">>,
     Dumps(Str(Word("abc"))),
     Dumps(Str(MapInventoryJson)),
     Dumps(Arr(<<Str(MapInventoryJson)>>)),
     Dumps(Obj(<<>>)),
     Dumps(Obj(<<Member(Word("type"), Str(Word("Feature")))>>)),
     Dumps(Obj(<<Member(MapInventoryJson, Num(Word("5")))>>)),
     Dumps(Obj(<<Member(MapInventoryJson, Null)>>)),
     Dumps(Obj(<<Member(MapInventoryJson, Str(<<"{">>))>>)),
     Dumps(Nested(Arr(<<>>))),
     Dumps(Nested(Num(Word("5")))),
     Dumps(Nested(Obj(<<Member(Word("type"), Str(Word("Feature")))>>)))}

\* Collections whose features are no list of objects.
OddCollections ==
    {Obj(<<Member(Word("type"), Str(FeatureCollection))>>),
     Obj(<<Member(Word("type"), Str(FeatureCollection)),
           Member(Word("features"), Null)>>),
     Obj(<<Member(Word("type"), Str(FeatureCollection)),
           Member(Word("features"), Arr(<<Null>>))>>),
     Obj(<<Member(Word("type"), Str(FeatureCollection)),
           Member(Word("features"),
                  Arr(<<Obj(<<Member(Word("properties"), Null)>>)>>))>>)}

\* A collection of one station with a member of its own that is named
\* map_inventory_json (GeoJSON allows foreign members) and holds the escaped
\* JSON of the empty collection.
ForeignMemberCollection ==
    Obj(Collection(<<"1">>).o
        \o <<Member(MapInventoryJson, Str(Dumps(Collection(<<>>))))>>)

PlainCollections == {Collection(k) : k \in KindLists} \cup OddCollections
Collections == PlainCollections \cup {ForeignMemberCollection}

InventoryBodies ==
    {Dumps(c) : c \in Collections}
        \cup {Dumps(Nested(c)) : c \in Collections}
        \cup NotACollection

ErrorBodies == {<<>>, <<BadByte>>, Dumps(Collection(<<"1">>)),
                Dumps(Obj(<<Member(Word("ride_id"), Str(Word("r1")))>>))}

ErrorStatuses == {403, 404, 500}

InventoryResponses ==
    {Response(200, b) : b \in InventoryBodies}
        \cup {Response(st, b) : st \in ErrorStatuses, b \in ErrorBodies}

DigitRun(n, d) == [i \in 1..n |-> d]

\* Content that is no JSON object: a first run of digits between a prefix and
\* a suffix, and possibly a second run after it.
RunLengths == {MinRideIdDigits - 1, MinRideIdDigits, MaxRideIdDigits,
               MaxRideIdDigits + 1}
Prefixes == {<<>>, <<"ride", "=">>, <<"ride">>, <<BadByte>>, <<CtrlByte>>}
Suffixes == {<<>>, <<Space>>, <<"a">>, <<BadByte, "a">>}
SecondRuns == {<<>>, <<Space>> \o DigitRun(MinRideIdDigits + 1, "7")}

OpaqueContents ==
    {p \o DigitRun(n, "9") \o x \o r :
        p \in Prefixes, n \in RunLengths, x \in Suffixes, r \in SecondRuns}

RideIdValues == {Str(DigitRun(MinRideIdDigits, "4")), Str(<<>>), Null,
                 Num(DigitRun(MinRideIdDigits + 1, "5")), Str(Word("abc")),
                 Arr(<<>>)}
StatusValues == {Str(Word("active")), Null}

JsonContents ==
    {Dumps(Obj(<<Member(Word("ride_id"), r)>>)) : r \in RideIdValues}
        \cup {Dumps(Obj(<<Member(Word("ride_id"), r),
                          Member(Word("status"), st)>>)) :
                  r \in RideIdValues, st \in StatusValues}
        \cup {Dumps(Obj(<<>>)),
              Dumps(Obj(<<Member(Word("status"), Str(Word("active")))>>)),
              Dumps(Arr(<<>>)),
              Dumps(Arr(<<Num(DigitRun(MinRideIdDigits, "4"))>>)),
              Dumps(Str(DigitRun(MinRideIdDigits, "4"))),
              <<"null">>}

ReserveResponses ==
    {Response(200, b) : b \in OpaqueContents \cup JsonContents}
        \cup {Response(st, b) : st \in ErrorStatuses, b \in ErrorBodies}

CancelResponses ==
    {Response(st, b) : st \in {200} \cup ErrorStatuses, b \in ErrorBodies}

\* ----------------------------------------------------- the operations
Tokens == {"", "tokA"}
StationIds == {Word("1"), Word("2")}
BikeTypes == {"ebike", "bike"}
RideIds == {DigitRun(MinRideIdDigits, "4")}

Init ==
    /\ token \in {<<>>} \cup {<<t>> : t \in Tokens}
    /\ stored \in {<<>>, <<"tokA">>}
    /\ scope = "outside"
    /\ close_calls = 0
    /\ session_closes = 0
    /\ pc = "idle"
    /\ call = [op |-> "init", args |-> <<>>]
    /\ request = <<>>
    /\ response = <<>>
    /\ outcome = <<>>

\* An operation that needs no request: it leaves the client idle.
Done(op, args, out) ==
    /\ call' = [op |-> op, args |-> args]
    /\ request' = <<>>
    /\ response' = <<>>
    /\ outcome' = <<out>>
    /\ pc' = "idle"

\* The guard of an authenticated operation and its post (lines 148-155,
\* 227-238, 293-300): AuthenticationError without a token and no request;
\* otherwise the request is posted and the operation awaits the response.
Post(op, args, path, body) ==
    /\ pc = "idle"
    /\ IF ~is_authenticated
       THEN Done(op, args, Raise("AuthenticationError"))
       ELSE /\ call' = [op |-> op, args |-> args]
            /\ request' = <<[url |-> Url(path), json |-> body,
                             headers |-> get_headers(TRUE)]>>
            /\ response' = <<>>
            /\ outcome' = <<>>
            /\ pc' = "awaiting"
    /\ UNCHANGED <<token, stored, scope, close_calls, session_closes>>

\* The awaited post ends: the operation op goes on with response r and ends
\* with outcome out.  Only a session that has not been closed answers.
Answer(op, r, out) ==
    /\ pc = "awaiting"
    /\ call.op = op
    /\ session_closes = 0
    /\ response' = <<r>>
    /\ outcome' = <<out>>
    /\ pc' = "idle"
    /\ UNCHANGED <<token, stored, scope, close_calls, session_closes, call,
                   request>>

\* The post raises: the session is closed, or the network fails.
post_raises ==
    /\ pc = "awaiting"
    /\ outcome' = <<Raise("RequestsError")>>
    /\ pc' = "idle"
    /\ UNCHANGED <<token, stored, scope, close_calls, session_closes, call,
                   request, response>>

\* The status checks in the other order: 403 taken for any failure.
ListStationsOutcome_StatusFirst(r) ==
    IF r.status # 200 THEN Raise("BayWheelsError")
    ELSE IF r.status = 403 THEN Raise("AuthenticationError")
    ELSE ParseStations(r.content)

\* Lines 157-186.
ListStationsOutcome(r) ==
    IF r.status = 403 THEN Raise("AuthenticationError")
    ELSE IF r.status # 200 THEN Raise("BayWheelsError")
    ELSE ParseStations(r.content)

\* Lines 201-205.
GetStationOutcome(r, station_id) ==
    With(ListStationsOutcome(r), LAMBDA stations :
         IF ~stations.ok THEN stations
         ELSE Return(FindStation(stations.val, station_id)))

\* Lines 240-281.
CreateReservationOutcome(r, station_id) ==
    IF r.status = 403 THEN Raise("AuthenticationError")
    ELSE IF r.status # 200 THEN Raise("ReservationError")
    ELSE ParseReservation(r.content, station_id)

\* Lines 302-306.
CancelReservationOutcome(r) ==
    IF r.status = 403 THEN Raise("AuthenticationError")
    ELSE IF r.status # 200 THEN Raise("ReservationError")
    ELSE Return(<<>>)

list_stations == Post("list_stations", <<>>, InventoryPath, <<>>)

list_stations_answer ==
    \E r \in InventoryResponses :
        Answer("list_stations", r, ListStationsOutcome(r))

get_station ==
    \E station_id \in StationIds :
        Post("get_station", <<station_id>>, InventoryPath, <<>>)

get_station_answer ==
    \E r \in InventoryResponses :
        Answer("get_station", r, GetStationOutcome(r, call.args[1]))

create_reservation ==
    \E station_id \in StationIds, bike_type \in BikeTypes :
        Post("create_reservation", <<station_id, bike_type>>, ReservePath,
             [station_id |-> station_id, reservation_item_key |-> bike_type,
              is_apple_pay_authorization_needed |-> FALSE])

create_reservation_answer ==
    \E r \in ReserveResponses :
        Answer("create_reservation", r,
               CreateReservationOutcome(r, call.args[1]))

cancel_reservation ==
    \E ride_id \in RideIds :
        Post("cancel_reservation", <<ride_id>>, CancelPath,
             [ride_id |-> ride_id])

cancel_reservation_answer ==
    \E r \in CancelResponses :
        Answer("cancel_reservation", r, CancelReservationOutcome(r))

\* Lines 70-76, AuthManager.load_token: the saved token becomes the token in
\* memory; None when no token is saved.
load_token ==
    /\ pc = "idle"
    /\ token' = IF stored # <<>> THEN stored ELSE token
    /\ Done("load_token", <<>>, Return(stored))
    /\ UNCHANGED <<stored, scope, close_calls, session_closes>>

\* Lines 78-80, AuthManager.clear_token: the saved token and the token in
\* memory are deleted.
clear_token ==
    /\ pc = "idle"
    /\ token' = <<>>
    /\ stored' = <<>>
    /\ Done("clear_token", <<>>, Return(<<>>))
    /\ UNCHANGED <<scope, close_calls, session_closes>>

\* Lines 103-112, AuthManager.request_code: the SMS is requested, or the
\* request fails with AuthenticationError.
request_code ==
    /\ pc = "idle"
    /\ \E sent \in BOOLEAN :
           Done("request_code", <<>>,
                IF sent THEN Return(<<>>) ELSE Raise("AuthenticationError"))
    /\ UNCHANGED <<token, stored, scope, close_calls, session_closes>>

\* Lines 114-134, AuthManager.login: the server accepts the code, accepts it
\* only with an email, or rejects it.  An accepted login sets and saves the
\* token.
login ==
    /\ pc = "idle"
    /\ \E email \in BOOLEAN, verdict \in {"ok", "email_required", "rejected"} :
           IF verdict = "ok" \/ (verdict = "email_required" /\ email)
           THEN /\ token' = <<"tokA">>
                /\ stored' = <<"tokA">>
                /\ Done("login", <<email>>, Return("tokA"))
           ELSE /\ UNCHANGED <<token, stored>>
                /\ Done("login", <<email>>, Raise("AuthenticationError"))
    /\ UNCHANGED <<scope, close_calls, session_closes>>

\* Lines 55-58: close() closes the session whenever the client owns it.
CloseSession ==
    /\ close_calls' = close_calls + 1
    /\ session_closes' = IF owns_session THEN session_closes + 1
                         ELSE session_closes

\* Lines 42-44.
aenter ==
    /\ pc = "idle"
    /\ scope = "outside"
    /\ scope' = "inside"
    /\ Done("__aenter__", <<>>, Return(<<>>))
    /\ UNCHANGED <<token, stored, close_calls, session_closes>>

\* Lines 46-53: the block is left, normally or by an exception.
aexit ==
    /\ pc = "idle"
    /\ scope = "inside"
    /\ scope' = "exited"
    /\ CloseSession
    /\ \E exc \in BOOLEAN : Done("__aexit__", <<exc>>, Return(<<>>))
    /\ UNCHANGED <<token, stored>>

\* Lines 55-58, called by the user.
close ==
    /\ pc = "idle"
    /\ close_calls < MaxCloses
    /\ CloseSession
    /\ Done("close", <<>>, Return(<<>>))
    /\ UNCHANGED <<token, stored, scope>>

Next ==
    \/ list_stations
    \/ list_stations_answer
    \/ get_station
    \/ get_station_answer
    \/ create_reservation
    \/ create_reservation_answer
    \/ cancel_reservation
    \/ cancel_reservation_answer
    \/ post_raises
    \/ load_token
    \/ clear_token
    \/ request_code
    \/ login
    \/ aenter
    \/ aexit
    \/ close

Spec == Init /\ [][Next]_vars

\* ------------------------------------------------------- properties
AuthenticatedOps ==
    {"list_stations", "get_station", "create_reservation",
     "cancel_reservation"}

Raised(e) == outcome # <<>> /\ ~outcome[1].ok /\ outcome[1].err = e
Returned == outcome # <<>> /\ outcome[1].ok

\* The call op has been answered with status st.
Answered(op, st) ==
    call.op = op /\ response # <<>> /\ response[1].status = st

\* C1: a call of list_stations, get_station, create_reservation or
\* cancel_reservation on a client without a token raises
\* AuthenticationError and posts no request.
C1_GuardBeforeRequest ==
    (call.op \in AuthenticatedOps /\ token = <<>>)
        => (pc = "idle" /\ Raised("AuthenticationError") /\ request = <<>>)

C1_Witness ==
    /\ call.op = "create_reservation"
    /\ token = <<>>
    /\ stored = <<>>
    /\ Raised("AuthenticationError")

\* C2: a response with status 403 makes each authenticated operation raise
\* AuthenticationError, whatever its body is.
C2_ForbiddenIsAuthenticationError ==
    \A op \in AuthenticatedOps :
        Answered(op, 403) => Raised("AuthenticationError")

C2_Witness ==
    /\ Answered("list_stations", 403)
    /\ response[1].content = Dumps(Collection(<<"1">>))
    /\ Raised("AuthenticationError")

\* C3: on a 200 response whose content fails strict JSON decoding for any
\* reason, create_reservation drops the undecodable bytes, scans the rest and
\* returns the Reservation of the identifier found there.
C3_LenientFallback ==
    (/\ Answered("create_reservation", 200)
     /\ ~ResponseJson(response[1].content).ok
     /\ SearchRideId(DecodeIgnore(response[1].content)) # <<>>)
        => (/\ Returned
            /\ outcome[1].val.ride_id
                   = SearchRideId(DecodeIgnore(response[1].content))[1])

\* The runs of digits of a text: <<i, n>> for a run of n digits at position i
\* with no digit before or after it, n between 15 and 20.
LongDigitRuns(text) ==
    {m \in (1..Len(text)) \X (MinRideIdDigits..MaxRideIdDigits) :
        /\ m[1] + m[2] - 1 <= Len(text)
        /\ \A k \in m[1]..(m[1] + m[2] - 1) : text[k] \in Digits
        /\ ~(m[1] > 1 /\ text[m[1] - 1] \in Digits)
        /\ ~(m[1] + m[2] <= Len(text) /\ text[m[1] + m[2]] \in Digits)}

\* The runs that no letter, digit or underscore touches.
DelimitedDigitRuns(text) ==
    {m \in LongDigitRuns(text) :
        ~IsWordAt(text, m[1] - 1) /\ ~IsWordAt(text, m[1] + m[2])}

FirstRun(text, runs) ==
    With(CHOOSE m \in runs : \A o \in runs : m[1] <= o[1],
         LAMBDA m : SubSeq(text, m[1], m[1] + m[2] - 1))

\* The content of the response is text that is no JSON.
TextNotJson(content) == ResponseJson(content) = Raise("JSONDecodeError")

ReservedAt(ride_id) ==
    /\ Returned
    /\ outcome[1].val = [ride_id |-> ride_id,
                         status |-> Str(Word("reserved")),
                         station_id |-> call.args[1]]

NoIdentifierIn(content) ==
    With(ResponseJson(content), LAMBDA data :
         IF data.ok
         THEN \/ data.val.t # "obj"
              \/ ~HasKey(data.val.o, Word("ride_id"))
              \/ Lookup(data.val.o, Word("ride_id")) \in {Null, Str(<<>>)}
         ELSE SearchRideId(DecodeIgnore(content)) = <<>>)

\* C5: a 200 response that gives no identifier makes create_reservation
\* raise ReservationError; no Reservation is returned.
C5_NoIdentifierNoReservation ==
    (/\ Answered("create_reservation", 200)
     /\ NoIdentifierIn(response[1].content))
        => Raised("ReservationError")

\* The stations of a collection of features of the kinds given: one for each
\* feature of kind "1", in the order of the features.
ExpectedStations(kinds) ==
    With(SelectSeq([i \in 1..Len(kinds) |-> i], LAMBDA i : kinds[i] = "1"),
         LAMBDA kept :
             [n \in 1..Len(kept) |-> [id |-> Str(Word(ToString(kept[n])))]])

CollectionTable ==
    {<<Dumps(Collection(k)), ExpectedStations(k)>> : k \in KindLists}

\* C6: list_stations returns one Station for each feature of the collection
\* whose map_item_type is 1, in the order of the features, and none for a
\* feature with another discriminator, without one or without properties.
C6_StationsAreTheTypeOneFeatures ==
    Answered("list_stations", 200)
        => \A p \in CollectionTable :
               response[1].content = p[1] => outcome = <<Return(p[2])>>

C6_Witness ==
    /\ Answered("list_stations", 200)
    /\ response[1].content = Dumps(Collection(ExampleKinds))
    /\ outcome = <<Return(<<[id |-> Str(Word("1"))], [id |-> Str(Word("2"))]>>)>>

\* The body that nests a collection, with the outcome of list_stations on the
\* body that is the collection itself.
NestedTable(collections) ==
    {<<Dumps(Nested(c)), ParseStations(Dumps(c))>> : c \in collections}

AllNestedTable == NestedTable(Collections)
PlainNestedTable == NestedTable(PlainCollections)

\* C7 as claimed: for every FeatureCollection, list_stations ends on the body
\* that holds it in map_inventory_json as it ends on the body that is the
\* collection itself.
C7_NestedAsDirect ==
    Answered("list_stations", 200)
        => \A p \in AllNestedTable :
               response[1].content = p[1] => outcome = <<p[2]>>

\* C7 as amended: for every FeatureCollection that has no member named
\* map_inventory_json, list_stations ends on the body that holds it in
\* map_inventory_json as it ends on the body that is the collection itself.
C7_NestedAsDirectWithoutForeignMember ==
    Answered("list_stations", 200)
        => \A p \in PlainNestedTable :
               response[1].content = p[1] => outcome = <<p[2]>>

C7_Witness ==
    /\ Answered("list_stations", 200)
    /\ response[1].content = Dumps(Nested(Collection(<<"2", "1">>)))
    /\ outcome = <<Return(<<[id |-> Str(Word("2"))]>>)>>

\* C8: a 200 response whose body is no well-formed FeatureCollection object
\* makes list_stations raise BayWheelsError and nothing else.
C8_TypedParseFailure ==
    (Answered("list_stations", 200) /\ response[1].content \in NotACollection)
        => Raised("BayWheelsError")

\* The client has been ended: close() was called or the block was left.
Ended == close_calls > 0

\* C9: once the client is ended by close() or by leaving the block, its
\* session has been closed exactly once.
C9_SessionClosedOnce == Ended => session_closes = 1

\* C10: every request an authenticated operation posts carries the
\* authorization header "Bearer " followed by the access token.
C10_BearerOnEveryRequest ==
    (call.op \in AuthenticatedOps /\ request # <<>>)
        => request[1].headers.authorization = <<"Bearer ", token[1]>>

=============================================================================
